---- MODULE Spec2Model ----
(***************************************************************************)
(* A model of the gorecipes PostgreSQL store layer                         *)
(* (backend/internal/database/recipes_postgres.go and schema.sql):         *)
(* CreateRecipe, UpdateRecipe, DeleteRecipe, ImportRecipeDataBundle,       *)
(* GetRecipeByID and GetAllRecipes, run statement by statement by workers  *)
(* against a READ COMMITTED store with the schema's constraints.           *)
(*                                                                         *)
(* Text is a sequence of one-character strings, so that splitting,         *)
(* trimming, lower-casing and joining are computed as the code computes    *)
(* them.                                                                   *)
(***************************************************************************)
EXTENDS Integers, Sequences, FiniteSets, TLC

(***************************************************************************)
(* Bounds of the model.                                                    *)
(***************************************************************************)
\* calls begun in one behaviour
MaxCalls == 3
\* ingredient lines in one draft
MaxLines == 2

(***************************************************************************)
(* Text helpers (Go's strings package, on sequences of characters).        *)
(***************************************************************************)
EmptyStr == << >>

\* unicode.IsSpace, on the characters the inputs use
IsSpace(c) == c = " "

\* unicode.ToLower on one character
LowerChar(c) ==
    CASE c = "O" -> "o"
      [] c = "S" -> "s"
      [] OTHER -> c

\* strings.ToLower
ToLower(s) == [k \in 1..Len(s) |-> LowerChar(s[k])]

\* strings.TrimSpace
RECURSIVE TrimLeft(_)
TrimLeft(s) ==
    IF s # << >> /\ IsSpace(Head(s)) THEN TrimLeft(Tail(s)) ELSE s

RECURSIVE TrimRight(_)
TrimRight(s) ==
    IF s # << >> /\ IsSpace(s[Len(s)]) THEN TrimRight(SubSeq(s, 1, Len(s) - 1)) ELSE s

TrimSpace(s) == TrimRight(TrimLeft(s))

\* strings.Index(s, " "): the first position of a space, 0 when there is none
FirstSpace(s) ==
    IF \E k \in 1..Len(s) : s[k] = " "
    THEN CHOOSE k \in 1..Len(s) : s[k] = " " /\ \A j \in 1..(k - 1) : s[j] # " "
    ELSE 0

\* strings.SplitN(s, " ", 2)
SplitN2(s) ==
    IF FirstSpace(s) = 0
    THEN << s >>
    ELSE << SubSeq(s, 1, FirstSpace(s) - 1), SubSeq(s, FirstSpace(s) + 1, Len(s)) >>

(***************************************************************************)
(* recipes_postgres.go: the split of a line and the Go-side normalizer.    *)
(***************************************************************************)
extractIngredientNameParts(fullIngredient) ==
    LET parts == SplitN2(fullIngredient) IN
    IF Len(parts) = 1
    THEN [quantity |-> EmptyStr, name |-> ToLower(TrimSpace(parts[1]))]
    ELSE [quantity |-> TrimSpace(parts[1]), name |-> ToLower(TrimSpace(parts[2]))]

normalizeIngredientName(name) == ToLower(TrimSpace(name))

(***************************************************************************)
(* schema.sql: normalize_ingredient_name and the trigger that stores it.   *)
(* The patterns are PostgreSQL regular expressions, in which \b is the     *)
(* backspace character (the word boundary is \y): a descriptor or a unit   *)
(* is removed only when backspace characters delimit it.                   *)
(***************************************************************************)
\* the character a PostgreSQL pattern's \b stands for
Backspace == "BS"

IsDigit(c) == c \in {"0", "1", "2", "3", "4", "5", "6", "7", "8", "9"}

\* the alternatives of the first pattern
SqlDescriptors ==
    {
      <<"f", "r", "e", "s", "h">>,
      <<"d", "r", "i", "e", "d">>,
      <<"f", "r", "o", "z", "e", "n">>,
      <<"c", "a", "n", "n", "e", "d">>,
      <<"c", "o", "o", "k", "e", "d">>,
      <<"r", "a", "w">>,
      <<"c", "h", "o", "p", "p", "e", "d">>,
      <<"d", "i", "c", "e", "d">>,
      <<"s", "l", "i", "c", "e", "d">>,
      <<"m", "i", "n", "c", "e", "d">>,
      <<"g", "r", "a", "t", "e", "d">>,
      <<"l", "a", "r", "g", "e">>,
      <<"m", "e", "d", "i", "u", "m">>,
      <<"s", "m", "a", "l", "l">>,
      <<"w", "h", "o", "l", "e">> }

\* the alternatives of the second pattern
SqlUnits ==
    {
      <<"g">>,
      <<"k", "g">>,
      <<"m", "g">>,
      <<"o", "z">>,
      <<"l", "b">>,
      <<"l", "b", "s">>,
      <<"m", "l">>,
      <<"l">>,
      <<"c", "l">>,
      <<"d", "l">>,
      <<"t", "s", "p">>,
      <<"t", "b", "s", "p">>,
      <<"c", "u", "p">>,
      <<"c", "u", "p", "s">>,
      <<"p", "t">>,
      <<"q", "t">>,
      <<"g", "a", "l">> }

\* whether word w stands in s at position p, letter case ignored (flag i)
WordAt(s, p, w) ==
    /\ p + Len(w) - 1 <= Len(s)
    /\ \A k \in 1..Len(w) : LowerChar(s[p + k - 1]) = w[k]

\* the length of the match of \b(fresh|...|whole)\b at position p, 0 for none
DescriptorMatchAt(s, p) ==
    IF /\ s[p] = Backspace
       /\ \E w \in SqlDescriptors :
             /\ WordAt(s, p + 1, w)
             /\ p + Len(w) + 1 <= Len(s)
             /\ s[p + Len(w) + 1] = Backspace
    THEN Len(CHOOSE w \in SqlDescriptors :
                 /\ WordAt(s, p + 1, w)
                 /\ p + Len(w) + 1 <= Len(s)
                 /\ s[p + Len(w) + 1] = Backspace) + 2
    ELSE 0

\* the first position at or after p that holds no digit (Len(s) + 1 at the end)
RECURSIVE SkipDigits(_, _)
SkipDigits(s, p) ==
    IF p <= Len(s) /\ IsDigit(s[p]) THEN SkipDigits(s, p + 1) ELSE p

\* the first position at or after p that holds no white space
RECURSIVE SkipSpaces(_, _)
SkipSpaces(s, p) ==
    IF p <= Len(s) /\ IsSpace(s[p]) THEN SkipSpaces(s, p + 1) ELSE p

\* the length of the match of \d+\s*(g|kg|...|gal)\b at position p, 0 for none
UnitMatchAt(s, p) ==
    LET q == SkipSpaces(s, SkipDigits(s, p))
        ok(w) == /\ WordAt(s, q, w)
                 /\ q + Len(w) <= Len(s)
                 /\ s[q + Len(w)] = Backspace
    IN  IF IsDigit(s[p]) /\ \E w \in SqlUnits : ok(w)
        THEN q + Len(CHOOSE w \in SqlUnits : ok(w)) + 1 - p
        ELSE 0

\* REGEXP_REPLACE(s, pattern, '', 'gi') for the first pattern
RECURSIVE RemoveDescriptors(_, _)
RemoveDescriptors(s, p) ==
    IF p > Len(s) THEN << >>
    ELSE IF DescriptorMatchAt(s, p) > 0
         THEN RemoveDescriptors(s, p + DescriptorMatchAt(s, p))
         ELSE << s[p] >> \o RemoveDescriptors(s, p + 1)

\* REGEXP_REPLACE(s, pattern, '', 'gi') for the second pattern
RECURSIVE RemoveUnits(_, _)
RemoveUnits(s, p) ==
    IF p > Len(s) THEN << >>
    ELSE IF UnitMatchAt(s, p) > 0
         THEN RemoveUnits(s, p + UnitMatchAt(s, p))
         ELSE << s[p] >> \o RemoveUnits(s, p + 1)

\* REGEXP_REPLACE(s, '\s+', ' ', 'g')
RECURSIVE CollapseSpaces(_, _)
CollapseSpaces(s, p) ==
    IF p > Len(s) THEN << >>
    ELSE IF IsSpace(s[p])
         THEN << " " >> \o CollapseSpaces(s, SkipSpaces(s, p))
         ELSE << s[p] >> \o CollapseSpaces(s, p + 1)

normalize_ingredient_name(input_name) ==
    TrimSpace(ToLower(
        CollapseSpaces(RemoveUnits(RemoveDescriptors(input_name, 1), 1), 1)))

(***************************************************************************)
(* schema.sql: normalized_name_tsvector, and plainto_tsquery's match.      *)
(* to_tsvector('english', .) is taken as the set of the text's words,      *)
(* lower-cased, without stop words, each with a plural s removed (the      *)
(* part of the English stemmer the inputs reach).                          *)
(***************************************************************************)
IsWordChar(c) == ~IsSpace(c) /\ c \notin {",", ".", Backspace}

\* the end of the word that starts at p
RECURSIVE WordEnd(_, _)
WordEnd(s, p) ==
    IF p <= Len(s) /\ IsWordChar(s[p]) THEN WordEnd(s, p + 1) ELSE p

\* the words of s from position p on
RECURSIVE WordsFrom(_, _)
WordsFrom(s, p) ==
    IF p > Len(s) THEN {}
    ELSE IF IsWordChar(s[p])
         THEN {SubSeq(s, p, WordEnd(s, p) - 1)} \cup WordsFrom(s, WordEnd(s, p))
         ELSE WordsFrom(s, p + 1)

EnglishStopWords == { <<"a">>, <<"a", "n">>, <<"t", "h", "e">>, <<"o", "f">>, <<"a", "n", "d">>, <<"o", "r">>, <<"w", "i", "t", "h">> }

Stem(w) ==
    IF Len(w) > 2 /\ w[Len(w)] = "s" /\ w[Len(w) - 1] \notin {"s", "u"}
    THEN SubSeq(w, 1, Len(w) - 1)
    ELSE w

to_tsvector(text) == {Stem(w) : w \in WordsFrom(ToLower(text), 1) \ EnglishStopWords}

\* plainto_tsquery('english', term): the lexemes of the term, all required
plainto_tsquery(term) == to_tsvector(term)

\* vector @@ query: every lexeme of the query is in the vector; a query with
\* no lexeme matches nothing
TsMatch(vector, query) == query # {} /\ query \subseteq vector

(***************************************************************************)
(* Inputs.                                                                 *)
(***************************************************************************)
\* ingredient lines a draft may carry
Line2CupsStock == <<"2", " ", "c", "u", "p", "s", " ", "s", "t", "o", "c", "k">>
Line3CupsStock == <<"3", " ", "c", "u", "p", "s", " ", " ", "s", "t", "o", "c", "k">>
LineOnion == <<"o", "n", "i", "o", "n">>
Line1Onion == <<"1", " ", "O", "n", "i", "o", "n">>
LineSpaceOnion == <<" ", "o", "n", "i", "o", "n">>

NameSoup == <<"S", "o", "u", "p">>
PhotoFile == <<"p", ".", "j", "p", "g">>
NameStew == <<"S", "t", "e", "w">>
\* the drafts offered to CreateRecipe and UpdateRecipe: lines with and without a
\* quantity, two lines of one ingredient, two ingredients of one normalized name
AllDrafts ==
    { [name |-> NameSoup, method |-> "boil", photo |-> PhotoFile,
       lines |-> << Line2CupsStock, Line1Onion >>],
      [name |-> NameStew, method |-> "fry", photo |-> PhotoFile,
       lines |-> << Line2CupsStock, Line3CupsStock >>],
      [name |-> NameStew, method |-> "boil", photo |-> PhotoFile,
       lines |-> << LineOnion, Line1Onion >>],
      [name |-> NameStew, method |-> "fry", photo |-> PhotoFile,
       lines |-> << LineSpaceOnion >>],
      [name |-> NameSoup, method |-> "fry", photo |-> EmptyStr,
       lines |-> << >>],
      [name |-> NameSoup, method |-> "fry", photo |-> PhotoFile,
       lines |-> << Line1Onion, Line2CupsStock, Line3CupsStock >>],
      [name |-> NameStew, method |-> "boil", photo |-> PhotoFile,
       lines |-> << Line2CupsStock, Line1Onion, Line3CupsStock, LineOnion >>] }

Drafts == {d \in AllDrafts : Len(d.lines) <= MaxLines}

\* the absent value of a nullable column
NULL == "NULL"
\* the empty recipe.ID of a draft
NoId == 0

TermStock == <<"s", "t", "o", "c", "k">>
TermOnion == <<"o", "n", "i", "o", "n">>
NameCupsStock == <<"c", "u", "p", "s", " ", "s", "t", "o", "c", "k">>

\* bundles (models.ExportedData) offered to the import; their ids are those
\* of the originating store
BundleSoup ==
    [recipes |-> << [id |-> "r1", name |-> NameSoup, method |-> "boil", photo_filename |-> EmptyStr] >>,
     ingredients |-> << [id |-> "i1", name |-> NameCupsStock, normalized_name |-> NameCupsStock],
                        [id |-> "i2", name |-> TermOnion, normalized_name |-> TermOnion] >>,
     links |-> << [recipe_id |-> "r1", ingredient_id |-> "i1", quantity_text |-> << "2" >>, sort_order |-> 0],
                  [recipe_id |-> "r1", ingredient_id |-> "i2", quantity_text |-> EmptyStr, sort_order |-> 1] >>]

\* the second link names an ingredient the bundle does not hold
BundleMissingIngredient ==
    [recipes |-> << [id |-> "r1", name |-> NameStew, method |-> "boil", photo_filename |-> PhotoFile] >>,
     ingredients |-> << [id |-> "i1", name |-> TermStock, normalized_name |-> TermStock] >>,
     links |-> << [recipe_id |-> "r1", ingredient_id |-> "i1", quantity_text |-> << "1" >>, sort_order |-> 0],
                  [recipe_id |-> "r1", ingredient_id |-> "i9", quantity_text |-> EmptyStr, sort_order |-> 1] >>]

\* the link names a recipe the bundle does not hold
BundleMissingRecipe ==
    [recipes |-> << >>,
     ingredients |-> << [id |-> "i1", name |-> TermOnion, normalized_name |-> TermOnion] >>,
     links |-> << [recipe_id |-> "r9", ingredient_id |-> "i1", quantity_text |-> EmptyStr, sort_order |-> 0] >>]

Bundles == {BundleSoup, BundleMissingIngredient, BundleMissingRecipe}
NoBundle == [recipes |-> << >>, ingredients |-> << >>, links |-> << >>]

(***************************************************************************)
(* State.                                                                  *)
(***************************************************************************)
Workers == {1, 2}

VARIABLES
    db,       \* the committed rows: recipes, ingredients, recipe_ingredients
    pc,       \* each worker's next statement
    call,     \* each worker's call: operation and arguments
    loc,      \* each worker's local variables
    delta,    \* each worker's open transaction: its uncommitted writes
    pre,      \* the committed rows when the worker's call began
    result,   \* the error (or "ok") the worker's call returned
    ncalls,   \* calls begun so far; also the clock time.Now() reads
    prevImport, \* the bundle of the last completed call when it was a successful import
    prevDelete  \* the id of the last completed call when it was a successful delete

vars == << db, pc, call, loc, delta, pre, result, ncalls, prevImport, prevDelete >>

EmptyStore == [recipes |-> {}, ingredients |-> {}, links |-> {}]

NoDelta ==
    [insRecipes |-> {}, updRecipes |-> {}, delRecipes |-> {},
     insIngredients |-> {}, insLinks |-> {}, delLinks |-> {}]

NoCall == [op |-> "none"]

\* got is what the statements of a read have returned so far, seen the
\* committed rows each of them ran on
NoLoc ==
    [id |-> NoId, now |-> 0, i |-> 1, ingID |-> NoId, imap |-> << >>, rmap |-> << >>,
     got |-> [err |-> FALSE], seen |-> << >>]

\* a Go map assignment m[k] = v
MapPut(m, k, v) == [x \in DOMAIN m \cup {k} |-> IF x = k THEN v ELSE m[x]]

Max(S) == IF S = {} THEN 0 ELSE CHOOSE x \in S : \A y \in S : y <= x

\* every identifier in use: uuid.NewString() returns none of them
IdsInUse ==
    {r.id : r \in db.recipes} \cup {g.id : g \in db.ingredients} \cup {l.id : l \in db.links}
    \cup UNION {{r.id : r \in delta[w].insRecipes} \cup {g.id : g \in delta[w].insIngredients}
                \cup {l.id : l \in delta[w].insLinks} \cup {loc[w].id} : w \in Workers}

NewUUID == Max(IdsInUse) + 1

(***************************************************************************)
(* What a statement of worker w sees under READ COMMITTED: the committed   *)
(* rows with w's own uncommitted writes applied.                           *)
(***************************************************************************)
ViewRecipes(w) ==
    {r \in db.recipes : /\ r.id \notin delta[w].delRecipes
                        /\ r.id \notin {u.id : u \in delta[w].updRecipes}}
    \cup {u \in delta[w].updRecipes : u.id \notin delta[w].delRecipes}
    \cup delta[w].insRecipes

ViewIngredients(w) == db.ingredients \cup delta[w].insIngredients

ViewLinks(w) ==
    {l \in db.links : l.id \notin delta[w].delLinks} \cup delta[w].insLinks

\* tx.Commit(): the committed rows afterwards
Commit(w) ==
    [recipes |-> ViewRecipes(w), ingredients |-> ViewIngredients(w), links |-> ViewLinks(w)]

\* a rollback that keeps the transaction's writes
RollbackKeepsWrites(w) == Commit(w)

\* a rollback that restores everything but the deleted link rows
RollbackKeepsDeletes(w) ==
    [db EXCEPT !.links = {l \in @ : l.id \notin delta[w].delLinks}]

\* tx.Rollback() (deferred; after an error): the committed rows afterwards
Rollback(w) == db

\* the other workers' open transactions
Others(w) == Workers \ {w}

(***************************************************************************)
(* Row locks and pending unique keys of the other open transactions: a     *)
(* statement that meets one waits until that transaction ends.             *)
(***************************************************************************)
\* another transaction has updated or deleted recipe row id
RecipeRowLocked(w, id) ==
    \E v \in Others(w) :
        id \in delta[v].delRecipes \/ id \in {u.id : u \in delta[v].updRecipes}

\* another transaction has deleted recipe row id (conflicts with FOR KEY SHARE)
RecipeDeletePending(w, id) == \E v \in Others(w) : id \in delta[v].delRecipes

\* another transaction holds FOR KEY SHARE on recipe row id: it inserted a link to it
RecipeKeyShared(w, id) ==
    \E v \in Others(w) : \E l \in delta[v].insLinks : l.recipe_id = id

\* another transaction has deleted one of the link rows ids
LinkRowsLocked(w, ids) == \E v \in Others(w) : delta[v].delLinks \cap ids # {}

\* an ingredients table whose name column is not UNIQUE: nothing to wait for
IngredientNameUnconstrained(w, name) == FALSE

\* another transaction has inserted an ingredient of this name
IngredientNamePending(w, name) ==
    \E v \in Others(w) : \E g \in delta[v].insIngredients : g.name = name

\* another transaction has inserted, or deleted, a link of this pair
LinkPairPending(w, rid, gid) ==
    \E v \in Others(w) :
        \/ \E l \in delta[v].insLinks : l.recipe_id = rid /\ l.ingredient_id = gid
        \/ \E l \in db.links : /\ l.recipe_id = rid /\ l.ingredient_id = gid
                               /\ l.id \in delta[v].delLinks

(***************************************************************************)
(* Steps of a worker.                                                      *)
(***************************************************************************)
\* the statement succeeded: the worker moves on inside its transaction
Step(w, newpc, newloc, newdelta) ==
    /\ pc' = [pc EXCEPT ![w] = newpc]
    /\ loc' = [loc EXCEPT ![w] = newloc]
    /\ delta' = [delta EXCEPT ![w] = newdelta]
    /\ UNCHANGED << db, call, pre, result, ncalls, prevImport, prevDelete >>

\* the statement returned an error: the call returns it, the deferred
\* tx.Rollback() runs
Fails(w, kind) ==
    /\ db' = Rollback(w)
    /\ pc' = [pc EXCEPT ![w] = "done"]
    /\ result' = [result EXCEPT ![w] = kind]
    /\ delta' = [delta EXCEPT ![w] = NoDelta]
    /\ UNCHANGED << call, loc, pre, ncalls, prevImport, prevDelete >>

\* a call begins: DB.Begin()
Begin(w, c, firstpc, l) ==
    /\ pc[w] = "idle"
    /\ ncalls < MaxCalls
    /\ pc' = [pc EXCEPT ![w] = firstpc]
    /\ call' = [call EXCEPT ![w] = c]
    /\ loc' = [loc EXCEPT ![w] = l]
    /\ pre' = [pre EXCEPT ![w] = db]
    /\ ncalls' = ncalls + 1
    /\ UNCHANGED << db, delta, result, prevImport, prevDelete >>

\* the ingredient lines the call's insert loop runs over
LinesOf(w) == call[w].draft.lines

\* the statement after the link of line i
AfterLine(w, i) == IF i < Len(LinesOf(w)) THEN "ing_sel" ELSE "commit"

(***************************************************************************)
(* CreateRecipe.                                                           *)
(***************************************************************************)
\* the recipes row CreateRecipe inserts
NewRecipeRow(id, d, now) ==
    [id |-> id, name |-> d.name, method |-> d.method, photo_filename |-> d.photo,
     created_at |-> now, updated_at |-> now]

\* a link row whose sort_order ignores the line's position
NewLinkRowUnordered(id, rid, gid, quantityText, i) ==
    [id |-> id, recipe_id |-> rid, ingredient_id |-> gid,
     quantity_text |-> quantityText, sort_order |-> 0]

\* the recipe_ingredients row the insert loop makes of line i
NewLinkRow(id, rid, gid, quantityText, i) ==
    [id |-> id, recipe_id |-> rid, ingredient_id |-> gid,
     quantity_text |-> quantityText, sort_order |-> i - 1]

\* the ingredients row an insert makes; the triggers set normalized_name
\* and, from it, normalized_name_tsvector
NewIngredientRow(id, name) ==
    [id |-> id, name |-> name, normalized_name |-> normalize_ingredient_name(name),
     normalized_name_tsvector |-> to_tsvector(normalize_ingredient_name(name))]

CreateBegin(w) ==
    \E d \in Drafts : \E sid \in {NoId} \cup {r.id : r \in db.recipes} :
        Begin(w, [op |-> "create", draft |-> d],
              "cr_recipe",
              [NoLoc EXCEPT !.id = IF sid = NoId THEN NewUUID ELSE sid,
                            !.now = ncalls + 1])

\* INSERT INTO recipes; the primary key rejects an id a row already has
CreateInsertRecipe(w) ==
    /\ pc[w] = "cr_recipe"
    /\ IF \E r \in ViewRecipes(w) : r.id = loc[w].id
       THEN Fails(w, "pk_violation")
       ELSE Step(w, IF Len(LinesOf(w)) > 0 THEN "ing_sel" ELSE "commit", loc[w],
                 [delta[w] EXCEPT !.insRecipes =
                     @ \cup {NewRecipeRow(loc[w].id, call[w].draft, loc[w].now)}])

\* the name the loop looks line i's ingredient up by
LineName(w) ==
    normalizeIngredientName(extractIngredientNameParts(LinesOf(w)[loc[w].i]).name)

\* SELECT id FROM ingredients WHERE name = $1
SelectIngredient(w) ==
    /\ pc[w] = "ing_sel"
    /\ IF \E g \in ViewIngredients(w) : g.name = LineName(w)
       THEN \E g \in ViewIngredients(w) :
               /\ g.name = LineName(w)
               /\ Step(w, "link_ins", [loc[w] EXCEPT !.ingID = g.id], delta[w])
       ELSE Step(w, "ing_ins", loc[w], delta[w])

\* INSERT INTO ingredients; name is UNIQUE
InsertIngredient(w) ==
    /\ pc[w] = "ing_ins"
    /\ ~IngredientNamePending(w, LineName(w))
    /\ IF \E g \in ViewIngredients(w) : g.name = LineName(w)
       THEN Fails(w, "unique_violation_ingredient")
       ELSE Step(w, "link_ins", [loc[w] EXCEPT !.ingID = NewUUID],
                 [delta[w] EXCEPT !.insIngredients =
                     @ \cup {NewIngredientRow(NewUUID, LineName(w))}])

\* foreign keys that are not enforced
LinkReferencesUnchecked(w, rid, gid) == TRUE

\* a (recipe_id, ingredient_id) pair that is not constrained
LinkPairUnconstrained(w, rid, gid) == FALSE

\* the foreign keys of a link row: both referenced rows exist
LinkReferencesExist(w, rid, gid) ==
    /\ \E r \in ViewRecipes(w) : r.id = rid
    /\ \E g \in ViewIngredients(w) : g.id = gid

\* UNIQUE(recipe_id, ingredient_id): a row of this pair is already there
LinkPairExists(w, rid, gid) ==
    \E l \in ViewLinks(w) : l.recipe_id = rid /\ l.ingredient_id = gid

\* INSERT INTO recipe_ingredients for line i
InsertLink(w) ==
    /\ pc[w] = "link_ins"
    /\ ~RecipeDeletePending(w, loc[w].id)
    /\ ~LinkPairPending(w, loc[w].id, loc[w].ingID)
    /\ IF ~LinkReferencesExist(w, loc[w].id, loc[w].ingID)
       THEN Fails(w, "fk_violation")
       ELSE IF LinkPairExists(w, loc[w].id, loc[w].ingID)
       THEN Fails(w, "unique_violation_link")
       ELSE Step(w, AfterLine(w, loc[w].i), [loc[w] EXCEPT !.i = @ + 1],
                 [delta[w] EXCEPT !.insLinks =
                     @ \cup {NewLinkRow(NewUUID, loc[w].id, loc[w].ingID,
                                        extractIngredientNameParts(LinesOf(w)[loc[w].i]).quantity,
                                        loc[w].i)}])

\* tx.Commit()
CommitTx(w) ==
    /\ pc[w] = "commit"
    /\ db' = Commit(w)
    /\ pc' = [pc EXCEPT ![w] = "done"]
    /\ result' = [result EXCEPT ![w] = "ok"]
    /\ delta' = [delta EXCEPT ![w] = NoDelta]
    /\ UNCHANGED << call, loc, pre, ncalls, prevImport, prevDelete >>

\* the statements of an open transaction
InTx ==
    {"cr_recipe", "ing_sel", "ing_ins", "link_ins", "commit", "up_recipe", "up_del",
     "de_links", "de_recipe", "im_ing_sel", "im_ing_ins", "im_rec_sel", "im_rec_ins", "im_link"}

\* a statement fails for a reason outside the rows (connection lost, call
\* cancelled, deadlock victim): the call returns the error and rolls back
StatementFails(w) ==
    /\ pc[w] \in InTx
    /\ Fails(w, "store_error")

\* the call has returned; the worker takes the next one
Return(w) ==
    /\ pc[w] = "done"
    /\ pc' = [pc EXCEPT ![w] = "idle"]
    /\ prevImport' = IF call[w].op = "import" /\ result[w] = "ok"
                     THEN call[w].bundle ELSE NoBundle
    /\ prevDelete' = IF call[w].op = "delete" /\ result[w] = "ok"
                     THEN loc[w].id ELSE NoId
    /\ call' = [call EXCEPT ![w] = NoCall]
    /\ loc' = [loc EXCEPT ![w] = NoLoc]
    /\ pre' = [pre EXCEPT ![w] = EmptyStore]
    /\ result' = [result EXCEPT ![w] = "none"]
    /\ UNCHANGED << db, delta, ncalls >>

(***************************************************************************)
(* UpdateRecipe.                                                           *)
(***************************************************************************)
UpdateBegin(w) ==
    \E d \in Drafts : \E id \in {NewUUID} \cup {r.id : r \in db.recipes} :
        Begin(w, [op |-> "update", draft |-> d], "up_recipe",
              [NoLoc EXCEPT !.id = id, !.now = ncalls + 1])

\* the row UPDATE recipes SET name, method, photo_filename, updated_at leaves
UpdatedRecipeRow(r, d, now) ==
    [r EXCEPT !.name = d.name, !.method = d.method, !.photo_filename = d.photo,
              !.updated_at = now]

\* an UPDATE whose affected-row count is not looked at
UpdateRecipeRowUnchecked(w) ==
    /\ pc[w] = "up_recipe"
    /\ ~RecipeRowLocked(w, loc[w].id)
    /\ Step(w, "up_del", loc[w],
            [delta[w] EXCEPT !.updRecipes =
                {UpdatedRecipeRow(r, call[w].draft, loc[w].now) :
                     r \in {x \in ViewRecipes(w) : x.id = loc[w].id}}])

\* UPDATE recipes ... WHERE id = $5; no row affected is "not found"
UpdateRecipeRow(w) ==
    /\ pc[w] = "up_recipe"
    /\ ~RecipeRowLocked(w, loc[w].id)
    /\ IF \E r \in ViewRecipes(w) : r.id = loc[w].id
       THEN Step(w, "up_del", loc[w],
                 [delta[w] EXCEPT !.updRecipes =
                     {UpdatedRecipeRow(r, call[w].draft, loc[w].now) :
                          r \in {x \in ViewRecipes(w) : x.id = loc[w].id}}])
       ELSE Fails(w, "not_found")

\* a DELETE that removes no row
NoLinksToDelete(w) == {}

\* a DELETE with no WHERE clause: every link row
AllLinksToDelete(w) == {l.id : l \in ViewLinks(w)}

\* the rows DELETE FROM recipe_ingredients WHERE recipe_id = $1 removes
LinksToDelete(w) == {l.id : l \in {x \in ViewLinks(w) : x.recipe_id = loc[w].id}}

\* DELETE FROM recipe_ingredients WHERE recipe_id = $1 (UpdateRecipe)
UpdateDeleteLinks(w) ==
    /\ pc[w] = "up_del"
    /\ ~LinkRowsLocked(w, LinksToDelete(w))
    /\ Step(w, IF Len(LinesOf(w)) > 0 THEN "ing_sel" ELSE "commit", loc[w],
            [delta[w] EXCEPT !.delLinks = @ \cup LinksToDelete(w)])

(***************************************************************************)
(* DeleteRecipe.                                                           *)
(***************************************************************************)
\* the id is a fresh one, an existing recipe's, or the one just deleted
DeleteBegin(w) ==
    \E id \in {NewUUID} \cup {r.id : r \in db.recipes} \cup ({prevDelete} \ {NoId}) :
        Begin(w, [op |-> "delete"], "de_links", [NoLoc EXCEPT !.id = id, !.now = ncalls + 1])

\* DELETE FROM recipe_ingredients WHERE recipe_id = $1 (DeleteRecipe)
DeleteDeleteLinks(w) ==
    /\ pc[w] = "de_links"
    /\ ~LinkRowsLocked(w, LinksToDelete(w))
    /\ Step(w, "de_recipe", loc[w], [delta[w] EXCEPT !.delLinks = @ \cup LinksToDelete(w)])

\* a DELETE that treats no row affected as "not found"
DeleteRecipeRowChecked(w) ==
    /\ pc[w] = "de_recipe"
    /\ ~RecipeRowLocked(w, loc[w].id)
    /\ ~RecipeKeyShared(w, loc[w].id)
    /\ ~LinkRowsLocked(w, LinksToDelete(w))
    /\ IF \E r \in ViewRecipes(w) : r.id = loc[w].id
       THEN Step(w, "commit", loc[w],
                 [delta[w] EXCEPT !.delRecipes = @ \cup {loc[w].id},
                                  !.delLinks = @ \cup LinksToDelete(w)])
       ELSE Fails(w, "not_found")

\* DELETE FROM recipes WHERE id = $1; ON DELETE CASCADE removes the links
\* that still reference the row; no row affected is a success
DeleteRecipeRow(w) ==
    /\ pc[w] = "de_recipe"
    /\ ~RecipeRowLocked(w, loc[w].id)
    /\ ~RecipeKeyShared(w, loc[w].id)
    /\ ~LinkRowsLocked(w, LinksToDelete(w))
    /\ Step(w, "commit", loc[w],
            [delta[w] EXCEPT !.delRecipes = @ \cup {r.id : r \in {x \in ViewRecipes(w) : x.id = loc[w].id}},
                             !.delLinks = @ \cup LinksToDelete(w)])

(***************************************************************************)
(* ImportRecipeDataBundle.                                                 *)
(***************************************************************************)
\* the first statement of the import from phase n on (1 ingredients,
\* 2 recipes, 3 links): a phase with no entries has none
PhaseStart(b, n) ==
    IF n <= 1 /\ Len(b.ingredients) > 0 THEN "im_ing_sel"
    ELSE IF n <= 2 /\ Len(b.recipes) > 0 THEN "im_rec_sel"
    ELSE IF n <= 3 /\ Len(b.links) > 0 THEN "im_link"
    ELSE "commit"

ImportBegin(w) ==
    \E b \in Bundles :
        Begin(w, [op |-> "import", bundle |-> b], PhaseStart(b, 1),
              [NoLoc EXCEPT !.now = ncalls + 1])

\* the entry of the bundle the import is at
CurIngredient(w) == call[w].bundle.ingredients[loc[w].i]
CurRecipe(w) == call[w].bundle.recipes[loc[w].i]
CurLink(w) == call[w].bundle.links[loc[w].i]

\* the worker's locals after ingredient i is mapped to row id
IngredientMapped(w, id) ==
    [loc[w] EXCEPT !.imap = MapPut(@, CurIngredient(w).id, id),
                   !.i = IF loc[w].i < Len(call[w].bundle.ingredients) THEN @ + 1 ELSE 1]

AfterIngredient(w) ==
    IF loc[w].i < Len(call[w].bundle.ingredients)
    THEN "im_ing_sel" ELSE PhaseStart(call[w].bundle, 2)

\* getOrCreateIngredientTx: SELECT id FROM ingredients WHERE normalized_name = $1;
\* QueryRow takes whichever matching row comes first
ImportSelectIngredient(w) ==
    /\ pc[w] = "im_ing_sel"
    /\ IF \E g \in ViewIngredients(w) : g.normalized_name = CurIngredient(w).normalized_name
       THEN \E g \in ViewIngredients(w) :
               /\ g.normalized_name = CurIngredient(w).normalized_name
               /\ Step(w, AfterIngredient(w), IngredientMapped(w, g.id), delta[w])
       ELSE Step(w, "im_ing_ins", loc[w], delta[w])

\* getOrCreateIngredientTx: INSERT INTO ingredients (id, name, ...); name is UNIQUE
ImportInsertIngredient(w) ==
    /\ pc[w] = "im_ing_ins"
    /\ ~IngredientNamePending(w, CurIngredient(w).name)
    /\ IF \E g \in ViewIngredients(w) : g.name = CurIngredient(w).name
       THEN Fails(w, "unique_violation_ingredient")
       ELSE Step(w, AfterIngredient(w), IngredientMapped(w, NewUUID),
                 [delta[w] EXCEPT !.insIngredients =
                     @ \cup {NewIngredientRow(NewUUID, CurIngredient(w).name)}])

RecipeMapped(w, id) ==
    [loc[w] EXCEPT !.rmap = MapPut(@, CurRecipe(w).id, id),
                   !.i = IF loc[w].i < Len(call[w].bundle.recipes) THEN @ + 1 ELSE 1]

AfterRecipe(w) ==
    IF loc[w].i < Len(call[w].bundle.recipes)
    THEN "im_rec_sel" ELSE PhaseStart(call[w].bundle, 3)

\* getOrCreateRecipeTx: SELECT id FROM recipes WHERE name = $1;
\* QueryRow takes whichever matching row comes first
ImportSelectRecipe(w) ==
    /\ pc[w] = "im_rec_sel"
    /\ IF \E r \in ViewRecipes(w) : r.name = CurRecipe(w).name
       THEN \E r \in ViewRecipes(w) :
               /\ r.name = CurRecipe(w).name
               /\ Step(w, AfterRecipe(w), RecipeMapped(w, r.id), delta[w])
       ELSE Step(w, "im_rec_ins", loc[w], delta[w])

\* the recipes row the import makes of a bundle recipe: an empty photo
\* filename is stored as NULL
ImportedRecipeRow(id, recipe, now) ==
    [id |-> id, name |-> recipe.name, method |-> recipe.method,
     photo_filename |-> IF recipe.photo_filename # EmptyStr
                        THEN recipe.photo_filename ELSE NULL,
     created_at |-> now, updated_at |-> now]

\* getOrCreateRecipeTx: INSERT INTO recipes
ImportInsertRecipe(w) ==
    /\ pc[w] = "im_rec_ins"
    /\ Step(w, AfterRecipe(w), RecipeMapped(w, NewUUID),
            [delta[w] EXCEPT !.insRecipes =
                @ \cup {ImportedRecipeRow(NewUUID, CurRecipe(w), loc[w].now)}])

\* the recipe_ingredients row the import makes of a bundle link: an empty
\* quantity text is stored as NULL
ImportedLinkRow(id, rid, gid, ri) ==
    [id |-> id, recipe_id |-> rid, ingredient_id |-> gid,
     quantity_text |-> IF ri.quantity_text # EmptyStr THEN ri.quantity_text ELSE NULL,
     sort_order |-> ri.sort_order]

\* insertRecipeIngredientLinkTx: whether both original ids of the link are mapped
LinkIsMapped(w, ri) ==
    /\ ri.recipe_id \in DOMAIN loc[w].rmap
    /\ ri.ingredient_id \in DOMAIN loc[w].imap

AfterLink(w) ==
    IF loc[w].i < Len(call[w].bundle.links) THEN "im_link" ELSE "commit"

\* an import that skips a link whose original ids are not mapped
ImportInsertLinkSkipping(w) ==
    /\ pc[w] = "im_link"
    /\ IF ~LinkIsMapped(w, CurLink(w))
       THEN Step(w, AfterLink(w), [loc[w] EXCEPT !.i = @ + 1], delta[w])
       ELSE LET rid == loc[w].rmap[CurLink(w).recipe_id]
                gid == loc[w].imap[CurLink(w).ingredient_id]
            IN  /\ ~RecipeDeletePending(w, rid)
                /\ ~LinkPairPending(w, rid, gid)
                /\ IF ~LinkReferencesExist(w, rid, gid)
                   THEN Fails(w, "fk_violation")
                   ELSE Step(w, AfterLink(w), [loc[w] EXCEPT !.i = @ + 1],
                             IF LinkPairExists(w, rid, gid)
                             THEN delta[w]
                             ELSE [delta[w] EXCEPT !.insLinks =
                                      @ \cup {ImportedLinkRow(NewUUID, rid, gid, CurLink(w))}])

\* insertRecipeIngredientLinkTx: INSERT ... ON CONFLICT (recipe_id, ingredient_id) DO NOTHING
ImportInsertLink(w) ==
    /\ pc[w] = "im_link"
    /\ IF ~LinkIsMapped(w, CurLink(w))
       THEN Fails(w, "integrity")
       ELSE LET rid == loc[w].rmap[CurLink(w).recipe_id]
                gid == loc[w].imap[CurLink(w).ingredient_id]
            IN  /\ ~RecipeDeletePending(w, rid)
                /\ ~LinkPairPending(w, rid, gid)
                /\ IF ~LinkReferencesExist(w, rid, gid)
                   THEN Fails(w, "fk_violation")
                   ELSE Step(w, AfterLink(w), [loc[w] EXCEPT !.i = @ + 1],
                             IF LinkPairExists(w, rid, gid)
                             THEN delta[w]
                             ELSE [delta[w] EXCEPT !.insLinks =
                                      @ \cup {ImportedLinkRow(NewUUID, rid, gid, CurLink(w))}])

(***************************************************************************)
(* The specifications: Spec runs one call at a time, SpecConc lets the     *)
(* calls of the workers overlap.                                           *)
(***************************************************************************)
Init ==
    /\ db = EmptyStore
    /\ pc = [w \in Workers |-> "idle"]
    /\ call = [w \in Workers |-> NoCall]
    /\ loc = [w \in Workers |-> NoLoc]
    /\ delta = [w \in Workers |-> NoDelta]
    /\ pre = [w \in Workers |-> EmptyStore]
    /\ result = [w \in Workers |-> "none"]
    /\ ncalls = 0
    /\ prevImport = NoBundle
    /\ prevDelete = NoId

\* the store after CreateRecipe of the draft (Soup: "2 cups stock", "1 Onion") on
\* the empty store has returned
SeedStore ==
    [recipes |-> {NewRecipeRow(1, [name |-> NameSoup, method |-> "boil", photo |-> PhotoFile], 1)},
     ingredients |-> {NewIngredientRow(2, NameCupsStock), NewIngredientRow(4, TermOnion)},
     links |-> {NewLinkRow(3, 1, 2, << "2" >>, 1), NewLinkRow(5, 1, 4, << "1" >>, 2)}]

\* overlapping calls start from the seeded store, its one call completed
InitConc ==
    /\ db = SeedStore
    /\ pc = [w \in Workers |-> "idle"]
    /\ call = [w \in Workers |-> NoCall]
    /\ loc = [w \in Workers |-> NoLoc]
    /\ delta = [w \in Workers |-> NoDelta]
    /\ pre = [w \in Workers |-> EmptyStore]
    /\ result = [w \in Workers |-> "none"]
    /\ ncalls = 1
    /\ prevImport = NoBundle
    /\ prevDelete = NoId

\* one statement of worker w
WorkerStep(w) ==
        \/ CreateBegin(w)
        \/ CreateInsertRecipe(w)
        \/ SelectIngredient(w)
        \/ InsertIngredient(w)
        \/ InsertLink(w)
        \/ CommitTx(w)
        \/ StatementFails(w)
        \/ Return(w)
        \/ UpdateBegin(w)
        \/ UpdateRecipeRow(w)
        \/ UpdateDeleteLinks(w)
        \/ DeleteBegin(w)
        \/ DeleteDeleteLinks(w)
        \/ DeleteRecipeRow(w)
        \/ ImportBegin(w)
        \/ ImportSelectIngredient(w)
        \/ ImportInsertIngredient(w)
        \/ ImportSelectRecipe(w)
        \/ ImportInsertRecipe(w)
        \/ ImportInsertLink(w)

\* one worker: every call runs alone
Next == WorkerStep(1)

\* the calls of the workers overlap
NextConc == \E w \in Workers : WorkerStep(w)

Spec == Init /\ [][Next]_vars

SpecConc == InitConc /\ [][NextConc]_vars

(***************************************************************************)
(* GetRecipeByID, as the set of the results it may return on a store.      *)
(***************************************************************************)
\* the orders in which ORDER BY key ASC may return the rows S, key being the
\* function from rows to their sort key: rows of equal key come in any order
RECURSIVE AscendingOrders(_, _)
AscendingOrders(S, key) ==
    IF S = {} THEN {<< >>}
    ELSE UNION {{<< x >> \o rest : rest \in AscendingOrders(S \ {x}, key)} :
                   x \in {y \in S : \A z \in S : key[y] <= key[z]}}

\* the name of the ingredient row a link joins to
IngredientNameOf(store, l) ==
    (CHOOSE g \in store.ingredients : g.id = l.ingredient_id).name

\* the display string GetRecipeByID makes of one joined row
DisplayString(quantityText, ingredientName) ==
    IF quantityText # EmptyStr
    THEN quantityText \o << " " >> \o ingredientName
    ELSE ingredientName

\* the link rows of recipe id that join to an ingredient row
JoinedLinks(store, id) ==
    {l \in store.links : /\ l.recipe_id = id
                         /\ \E g \in store.ingredients : g.id = l.ingredient_id}

\* Scan into a Go string fails on NULL: photo_filename of the recipe row, or
\* quantity_text of one of its joined rows
GetRecipeByID(store, id) ==
    IF ~\E r \in store.recipes : r.id = id
    THEN {[found |-> FALSE, err |-> FALSE]}
    ELSE IF \/ \E r \in store.recipes : r.id = id /\ r.photo_filename = NULL
            \/ \E l \in JoinedLinks(store, id) : l.quantity_text = NULL
    THEN {[found |-> FALSE, err |-> TRUE]}
    ELSE {[found |-> TRUE, err |-> FALSE,
           recipe |-> CHOOSE r \in store.recipes : r.id = id,
           ingredients |-> [k \in 1..Len(rows) |->
                               DisplayString(rows[k].quantity_text,
                                             IngredientNameOf(store, rows[k]))]] :
              rows \in AscendingOrders(JoinedLinks(store, id),
                                      [l \in JoinedLinks(store, id) |-> l.sort_order])}

(***************************************************************************)
(* GetAllRecipes: the count query and the select query.                    *)
(***************************************************************************)
\* r.search_vector @@ plainto_tsquery('english', searchTerm): the text index
\* over the recipe's name
SearchMatches(r, searchTerm) == TsMatch(to_tsvector(r.name), plainto_tsquery(searchTerm))

\* the links of recipe r that the JOIN pair of one filter term keeps
TermLinks(store, r, term) ==
    LET query == plainto_tsquery(term)
    IN  {l \in store.links :
            /\ l.recipe_id = r.id
            /\ \E g \in store.ingredients :
                  /\ g.id = l.ingredient_id
                  /\ TsMatch(g.normalized_name_tsvector, query)}

\* the links the first k JOIN pairs pick for recipe r, one per filter term
RECURSIVE Picks(_, _, _, _)
Picks(store, r, ingredientFilters, k) ==
    IF k = 0 THEN {<< >>}
    ELSE {Append(f, l) : f \in Picks(store, r, ingredientFilters, k - 1),
                         l \in TermLinks(store, r, ingredientFilters[k])}

\* a join that keeps a recipe when any one filter term matches a linked ingredient
JoinRowsAnyTerm(store, searchTerm, ingredientFilters) ==
    UNION {{[recipe |-> r, picks |-> << l >>] :
               l \in UNION {TermLinks(store, r, ingredientFilters[k]) :
                               k \in 1..Len(ingredientFilters)}} :
             r \in {x \in store.recipes :
                       searchTerm = EmptyStr \/ SearchMatches(x, searchTerm)}}

\* the rows of FROM recipes r JOIN ... (one JOIN pair per filter term) WHERE ...:
\* a recipe with the link each JOIN pair picked
JoinRows(store, searchTerm, ingredientFilters) ==
    UNION {{[recipe |-> r, picks |-> f] :
               f \in Picks(store, r, ingredientFilters, Len(ingredientFilters))} :
             r \in {x \in store.recipes :
                       searchTerm = EmptyStr \/ SearchMatches(x, searchTerm)}}

\* SELECT COUNT(DISTINCT r.id) over the joined rows
CountQuery(store, searchTerm, ingredientFilters) ==
    Cardinality({row.recipe.id : row \in JoinRows(store, searchTerm, ingredientFilters)})

\* the default page size
DefaultPageSize == 10

\* the rows of the select query in the orders ORDER BY r.updated_at DESC allows
SelectOrders(store, searchTerm, ingredientFilters) ==
    AscendingOrders(JoinRows(store, searchTerm, ingredientFilters),
                    [row \in JoinRows(store, searchTerm, ingredientFilters) |->
                        0 - row.recipe.updated_at])

\* LIMIT pageSize OFFSET (page - 1) * pageSize
PageOf(rows, page, pageSize) ==
    LET p == IF page < 1 THEN 1 ELSE page
        n == IF pageSize < 1 THEN DefaultPageSize ELSE pageSize
        offset == (p - 1) * n
        last == IF offset + n < Len(rows) THEN offset + n ELSE Len(rows)
    IN  SubSeq(rows, offset + 1, last)

\* the ingredients_list column of the select: array_agg(quantity_text || ' '
\* || name ORDER BY sort_order ASC), in the orders the sort allows; the
\* concatenation is NULL when quantity_text is
ingredients_list(store, id) ==
    {[k \in 1..Len(rows) |->
         IF rows[k].quantity_text = NULL THEN NULL
         ELSE rows[k].quantity_text \o << " " >> \o IngredientNameOf(store, rows[k])] :
        rows \in AscendingOrders(JoinedLinks(store, id),
                                [l \in JoinedLinks(store, id) |-> l.sort_order])}

\* rows.Scan fails on a row whose photo_filename is NULL (into a Go string)
\* or whose ingredients_list holds a NULL element (into pq.StringArray):
\* quantity_text || ' ' || name is NULL when quantity_text is
RowScanFails(store, row) ==
    \/ row.recipe.photo_filename = NULL
    \/ \E l \in JoinedLinks(store, row.recipe.id) : l.quantity_text = NULL

\* GetAllRecipes, as the set of the results it may return on a store: an
\* error, or the recipes of the page and the total count
GetAllRecipes(store, searchTerm, ingredientFilters, page, pageSize) ==
    LET totalCount == CountQuery(store, searchTerm, ingredientFilters)
    IN  IF totalCount = 0
        THEN {[err |-> FALSE, recipes |-> << >>, total |-> 0]}
        ELSE {IF \E k \in 1..Len(rows) : RowScanFails(store, rows[k])
              THEN [err |-> TRUE, recipes |-> << >>, total |-> 0]
              ELSE [err |-> FALSE, recipes |-> [k \in 1..Len(rows) |-> rows[k].recipe],
                    total |-> totalCount] :
                 rows \in {PageOf(all, page, pageSize) :
                              all \in SelectOrders(store, searchTerm, ingredientFilters)}}

\* the arguments offered to GetAllRecipes
SearchInputs == {EmptyStr, <<"s", "o", "u", "p">>}
FilterInputs == {<< >>, << TermStock >>, << TermOnion >>, << TermStock, TermOnion >>}
PageInputs == {1, 2}
PageSizeInputs == {1, 2}

(***************************************************************************)
(* The reads as calls: each statement of GetRecipeByID and GetAllRecipes   *)
(* goes to the pool (DB.QueryRow, DB.Query), outside any transaction, and  *)
(* reads the rows committed when it runs.  A read waits for no lock.       *)
(***************************************************************************)
ListBegin(w) ==
    \E st \in SearchInputs : \E f \in FilterInputs :
    \E p \in PageInputs : \E n \in PageSizeInputs :
        Begin(w, [op |-> "list", searchTerm |-> st, ingredientFilters |-> f,
                  page |-> p, pageSize |-> n], "ls_count", NoLoc)

\* the read returns
ReadReturns(w, kind, got) ==
    /\ pc' = [pc EXCEPT ![w] = "done"]
    /\ result' = [result EXCEPT ![w] = kind]
    /\ loc' = [loc EXCEPT ![w] = [@ EXCEPT !.got = got, !.seen = Append(@, db)]]
    /\ UNCHANGED << db, call, delta, pre, ncalls, prevImport, prevDelete >>

\* the read goes on to its second statement
ReadStep(w, newpc, got) ==
    /\ pc' = [pc EXCEPT ![w] = newpc]
    /\ loc' = [loc EXCEPT ![w] = [@ EXCEPT !.got = got, !.seen = Append(@, db)]]
    /\ UNCHANGED << db, call, delta, pre, result, ncalls, prevImport, prevDelete >>

\* DB.QueryRow(finalCountQuery).Scan(&totalCount); zero returns at once
ListCount(w) ==
    /\ pc[w] = "ls_count"
    /\ LET totalCount == CountQuery(db, call[w].searchTerm, call[w].ingredientFilters)
       IN  IF totalCount = 0
           THEN ReadReturns(w, "ok", [err |-> FALSE, recipes |-> << >>, total |-> 0])
           ELSE ReadStep(w, "ls_select", [err |-> FALSE, total |-> totalCount])

\* DB.Query(finalSelectQuery) and the scan of its rows
ListSelect(w) ==
    /\ pc[w] = "ls_select"
    /\ \E all \in SelectOrders(db, call[w].searchTerm, call[w].ingredientFilters) :
          LET rows == PageOf(all, call[w].page, call[w].pageSize)
          IN  IF \E k \in 1..Len(rows) : RowScanFails(db, rows[k])
              THEN ReadReturns(w, "scan_error", [err |-> TRUE, recipes |-> << >>, total |-> 0])
              ELSE ReadReturns(w, "ok",
                               [err |-> FALSE,
                                recipes |-> [k \in 1..Len(rows) |-> rows[k].recipe],
                                total |-> loc[w].got.total])

GetBegin(w) ==
    \E id \in {NewUUID} \cup {r.id : r \in db.recipes} :
        Begin(w, [op |-> "get"], "get_recipe", [NoLoc EXCEPT !.id = id])

\* DB.QueryRow(recipeQuery, id).Scan(...): no row returns nil, nil
GetSelectRecipe(w) ==
    /\ pc[w] = "get_recipe"
    /\ IF ~\E r \in db.recipes : r.id = loc[w].id
       THEN ReadReturns(w, "ok", [found |-> FALSE, err |-> FALSE])
       ELSE \E r \in db.recipes :
               /\ r.id = loc[w].id
               /\ IF r.photo_filename = NULL
                  THEN ReadReturns(w, "scan_error", [found |-> FALSE, err |-> TRUE])
                  ELSE ReadStep(w, "get_links", [err |-> FALSE, recipe |-> r])

\* DB.Query(ingredientsQuery, id) and the scan of its rows
GetSelectLinks(w) ==
    /\ pc[w] = "get_links"
    /\ IF \E l \in JoinedLinks(db, loc[w].id) : l.quantity_text = NULL
       THEN ReadReturns(w, "scan_error", [found |-> FALSE, err |-> TRUE])
       ELSE \E rows \in AscendingOrders(JoinedLinks(db, loc[w].id),
                                        [l \in JoinedLinks(db, loc[w].id) |-> l.sort_order]) :
               ReadReturns(w, "ok",
                           [found |-> TRUE, err |-> FALSE, recipe |-> loc[w].got.recipe,
                            ingredients |-> [k \in 1..Len(rows) |->
                                                DisplayString(rows[k].quantity_text,
                                                              IngredientNameOf(db, rows[k]))]])

(***************************************************************************)
(* ExportData: three reads on the pool, one after the other.               *)
(***************************************************************************)
ExportBegin(w) == Begin(w, [op |-> "export"], "ex_recipes", NoLoc)

\* GetAllRecipesForExport: ORDER BY created_at ASC; a NULL photo_filename is
\* read as the empty string
ExportRecipes(w) ==
    /\ pc[w] = "ex_recipes"
    /\ \E rows \in AscendingOrders(db.recipes, [r \in db.recipes |-> r.created_at]) :
          ReadStep(w, "ex_ingredients",
                   [err |-> FALSE,
                    recipes |-> [k \in 1..Len(rows) |->
                                    [id |-> rows[k].id, name |-> rows[k].name,
                                     method |-> rows[k].method,
                                     photo_filename |-> IF rows[k].photo_filename = NULL
                                                        THEN EmptyStr
                                                        ELSE rows[k].photo_filename]]])

\* GetAllIngredients: ORDER BY name ASC, the one order the collation gives
ExportIngredients(w) ==
    /\ pc[w] = "ex_ingredients"
    /\ LET rows == CHOOSE o \in AscendingOrders(db.ingredients,
                                               [g \in db.ingredients |-> 0]) : TRUE
       IN  ReadStep(w, "ex_links",
                    [err |-> FALSE, recipes |-> loc[w].got.recipes,
                     ingredients |-> [k \in 1..Len(rows) |->
                                         [id |-> rows[k].id, name |-> rows[k].name,
                                          normalized_name |-> rows[k].normalized_name]]])

\* GetAllRecipeIngredients: ORDER BY recipe_id ASC, sort_order ASC; a NULL
\* quantity_text is read as the empty string
ExportLinks(w) ==
    /\ pc[w] = "ex_links"
    /\ \E rows \in AscendingOrders(db.links,
                                  [l \in db.links |->
                                      l.recipe_id * (Cardinality(db.links) + 1) + l.sort_order]) :
          ReadReturns(w, "ok",
                      [err |-> FALSE, recipes |-> loc[w].got.recipes,
                       ingredients |-> loc[w].got.ingredients,
                       links |-> [k \in 1..Len(rows) |->
                                     [recipe_id |-> rows[k].recipe_id,
                                      ingredient_id |-> rows[k].ingredient_id,
                                      quantity_text |-> IF rows[k].quantity_text = NULL
                                                        THEN EmptyStr
                                                        ELSE rows[k].quantity_text,
                                      sort_order |-> rows[k].sort_order]]])

\* one statement of a reading worker
ReaderStep(w) ==
        \/ ListBegin(w)
        \/ ListCount(w)
        \/ ListSelect(w)
        \/ GetBegin(w)
        \/ GetSelectRecipe(w)
        \/ GetSelectLinks(w)
        \/ ExportBegin(w)
        \/ ExportRecipes(w)
        \/ ExportIngredients(w)
        \/ ExportLinks(w)
        \/ Return(w)

\* worker 1 reads while worker 2 writes
NextRead == ReaderStep(1) \/ WorkerStep(2)

SpecRead == InitConc /\ [][NextRead]_vars

(***************************************************************************)
(* Imports of bundles that differ in nothing but the normalized_name the   *)
(* caller wrote into them, on the seeded store (which holds "onion").      *)
(***************************************************************************)
NameOnionCapital == <<"O", "n", "i", "o", "n">>

\* one recipe, one ingredient, one link; the ingredient carries name and cn
BundleOfIngredient(name, cn) ==
    [recipes |-> << [id |-> "r1", name |-> NameStew, method |-> "fry", photo_filename |-> PhotoFile] >>,
     ingredients |-> << [id |-> "i1", name |-> name, normalized_name |-> cn] >>,
     links |-> << [recipe_id |-> "r1", ingredient_id |-> "i1", quantity_text |-> << "1" >>, sort_order |-> 0] >>]

\* the normalized_name of an export, a normalized_name left out, and one
\* that is another ingredient's
TwinBundles ==
    { BundleOfIngredient(NameOnionCapital, TermOnion),
      BundleOfIngredient(NameOnionCapital, EmptyStr),
      BundleOfIngredient(TermOnion, TermOnion),
      BundleOfIngredient(TermOnion, EmptyStr),
      BundleOfIngredient(TermOnion, NameCupsStock) }

ImportBeginTwin(w) ==
    \E b \in TwinBundles :
        Begin(w, [op |-> "import", bundle |-> b], PhaseStart(b, 1),
              [NoLoc EXCEPT !.now = ncalls + 1])

\* one statement of an importing worker
ImportStep(w) ==
        \/ ImportBeginTwin(w)
        \/ ImportSelectIngredient(w)
        \/ ImportInsertIngredient(w)
        \/ ImportSelectRecipe(w)
        \/ ImportInsertRecipe(w)
        \/ ImportInsertLink(w)
        \/ CommitTx(w)
        \/ StatementFails(w)
        \/ Return(w)

NextImport == \E w \in Workers : ImportStep(w)

SpecImport == InitConc /\ [][NextImport]_vars

(***************************************************************************)
(* The administrative handlers: the legacy recipe import (ImportRecipes),  *)
(* which saves each recipe of a file through CreateRecipe.                 *)
(***************************************************************************)
\* the timestamps a recipe of the file carries (not zero: such a recipe is skipped)
FileTimes == [created_at |-> 0 - 2, updated_at |-> 0 - 1]

\* ImportRecipes: a recipe of the file whose id no row has is handed to
\* CreateRecipe with the file's id and timestamps and an empty photo filename
LegacyCreateBegin(w) ==
    \E d \in Drafts :
        Begin(w, [op |-> "create", draft |-> [d EXCEPT !.photo = EmptyStr],
                  file |-> FileTimes, fileID |-> NewUUID],
              "cr_recipe", [NoLoc EXCEPT !.id = NewUUID, !.now = ncalls + 1])

\* the bundle an export returned
ExportedBundle(w) ==
    [recipes |-> loc[w].got.recipes, ingredients |-> loc[w].got.ingredients,
     links |-> loc[w].got.links]

\* the exported bundle is taken to an empty store and given to ImportData
\* there; source keeps the rows of the store it came from
RestoreBegin(w) ==
    /\ pc[w] = "done"
    /\ call[w].op = "export"
    /\ ncalls < MaxCalls
    /\ db' = EmptyStore
    /\ pc' = [pc EXCEPT ![w] = PhaseStart(ExportedBundle(w), 1)]
    /\ call' = [call EXCEPT ![w] = [op |-> "import", bundle |-> ExportedBundle(w),
                                      source |-> db]]
    /\ loc' = [loc EXCEPT ![w] = [NoLoc EXCEPT !.now = ncalls + 1]]
    /\ pre' = [pre EXCEPT ![w] = EmptyStore]
    /\ result' = [result EXCEPT ![w] = "none"]
    /\ ncalls' = ncalls + 1
    /\ UNCHANGED << delta, prevImport, prevDelete >>

\* one worker: legacy imports, exports, and imports of the exported bundle
NextAdmin ==
        \/ LegacyCreateBegin(1)
        \/ CreateInsertRecipe(1)
        \/ SelectIngredient(1)
        \/ InsertIngredient(1)
        \/ InsertLink(1)
        \/ ExportBegin(1)
        \/ ExportRecipes(1)
        \/ ExportIngredients(1)
        \/ ExportLinks(1)
        \/ RestoreBegin(1)
        \/ ImportSelectIngredient(1)
        \/ ImportInsertIngredient(1)
        \/ ImportSelectRecipe(1)
        \/ ImportInsertRecipe(1)
        \/ ImportInsertLink(1)
        \/ CommitTx(1)
        \/ StatementFails(1)
        \/ Return(1)

SpecAdmin == Init /\ [][NextAdmin]_vars

(***************************************************************************)
(* The handlers GET /recipes/{id} and PUT /recipes/{id}.                   *)
(***************************************************************************)
placeholderImage == << "p", "l", "a", "c", "e", "h", "o", "l", "d", "e", "r", ".", "j", "p", "g" >>

\* PUT /recipes/{id}: the form's name, method and lines, with or without a
\* photo file (its new name is no other file's)
PutBegin(w) ==
    \E d \in Drafts : \E id \in {NewUUID} \cup {r.id : r \in db.recipes} :
    \E upload \in {EmptyStr, << "n", ".", "j", "p", "g" >>} :
        Begin(w, [op |-> "put", draft |-> d, upload |-> upload], "put_get",
              [NoLoc EXCEPT !.id = id, !.now = ncalls + 1])

\* the handler up to its call of database.UpdateRecipe: GetRecipeByID (a nil
\* recipe with a nil error is dereferenced: the handler panics), the lines
\* trimmed and the blank ones dropped, the uploaded photo saved and the old
\* photo file removed
PutGet(w) ==
    /\ pc[w] = "put_get"
    /\ \E o \in GetRecipeByID(db, loc[w].id) :
          IF o.err THEN ReadReturns(w, "read_error", [err |-> TRUE, removed |-> {}])
          ELSE IF ~o.found THEN ReadReturns(w, "panic", [err |-> TRUE, removed |-> {}])
          ELSE LET oldPhotoFilename == o.recipe.photo_filename
                   newPhotoUploaded == call[w].upload # EmptyStr
                   photo == IF newPhotoUploaded THEN call[w].upload ELSE oldPhotoFilename
                   trimmed == [k \in 1..Len(call[w].draft.lines) |->
                                  TrimSpace(call[w].draft.lines[k])]
               IN  /\ pc' = [pc EXCEPT ![w] = "up_recipe"]
                   /\ call' = [call EXCEPT ![w] =
                         [@ EXCEPT !.draft =
                             [@ EXCEPT !.lines = SelectSeq(trimmed, LAMBDA x : x # EmptyStr),
                                       !.photo = IF photo = EmptyStr
                                                 THEN placeholderImage ELSE photo]]]
                   /\ loc' = [loc EXCEPT ![w] =
                         [@ EXCEPT !.got =
                             [err |-> FALSE,
                              removed |-> IF /\ newPhotoUploaded
                                             /\ oldPhotoFilename # EmptyStr
                                             /\ oldPhotoFilename # placeholderImage
                                             /\ oldPhotoFilename # photo
                                          THEN {oldPhotoFilename} ELSE {}]]]
                   /\ UNCHANGED << db, delta, pre, result, ncalls, prevImport, prevDelete >>

\* the status code the handler answers with; gin's recovery answers a panic
HandlerStatus(w) ==
    CASE call[w].op = "get" -> IF loc[w].got.err THEN 500 ELSE 200
      [] call[w].op = "put" ->
            IF result[w] = "ok" THEN 200
            ELSE IF result[w] = "not_found" THEN 404 ELSE 500

\* one worker calls the two handlers on the seeded store
NextPut ==
        \/ GetBegin(1)
        \/ GetSelectRecipe(1)
        \/ GetSelectLinks(1)
        \/ PutBegin(1)
        \/ PutGet(1)
        \/ UpdateRecipeRow(1)
        \/ UpdateDeleteLinks(1)
        \/ SelectIngredient(1)
        \/ InsertIngredient(1)
        \/ InsertLink(1)
        \/ CommitTx(1)
        \/ StatementFails(1)
        \/ Return(1)

SpecPut == InitConc /\ [][NextPut]_vars

(***************************************************************************)
(* The ingredient-line normalizer of the handlers: extractFilterableNames. *)
(***************************************************************************)
\* units of measurement, in the order removeSubstrings takes them
commonUnits ==
    << <<"g">>, <<"k", "g">>, <<"m", "g">>, <<"o", "z">>, <<"l", "b">>, <<"l", "b", "s">>,
       <<"m", "l">>, <<"l">>, <<"c", "l">>, <<"d", "l">>, <<"t", "s", "p">>, <<"t", "b", "s", "p">>,
       <<"f", "l", " ", "o", "z">>, <<"c", "u", "p">>, <<"c", "u", "p", "s">>, <<"p", "t">>,
       <<"q", "t">>, <<"g", "a", "l">>, <<"p", "i", "n", "c", "h">>, <<"d", "a", "s", "h">>,
       <<"c", "l", "o", "v", "e">>, <<"c", "l", "o", "v", "e", "s">>, <<"h", "e", "a", "d">>,
       <<"h", "e", "a", "d", "s">>, <<"s", "l", "i", "c", "e">>, <<"s", "l", "i", "c", "e", "s">>,
       <<"p", "i", "e", "c", "e">>, <<"p", "i", "e", "c", "e", "s">>, <<"h", "a", "l", "f">>,
       <<"q", "u", "a", "r", "t", "e", "r">> >>

\* adjectives and preparation states, in the order removeSubstrings takes them
commonDescriptors ==
    << <<"f", "r", "e", "s", "h">>, <<"d", "r", "i", "e", "d">>, <<"f", "r", "o", "z", "e", "n">>,
       <<"c", "a", "n", "n", "e", "d">>, <<"c", "o", "o", "k", "e", "d">>,
       <<"u", "n", "c", "o", "o", "k", "e", "d">>, <<"r", "a", "w">>,
       <<"c", "h", "o", "p", "p", "e", "d">>, <<"d", "i", "c", "e", "d">>,
       <<"s", "l", "i", "c", "e", "d">>, <<"m", "i", "n", "c", "e", "d">>,
       <<"g", "r", "a", "t", "e", "d">>, <<"c", "r", "u", "s", "h", "e", "d">>,
       <<"p", "e", "e", "l", "e", "d">>, <<"s", "e", "e", "d", "e", "d">>,
       <<"l", "a", "r", "g", "e">>, <<"m", "e", "d", "i", "u", "m">>, <<"s", "m", "a", "l", "l">>,
       <<"r", "i", "p", "e">>, <<"u", "n", "r", "i", "p", "e">>,
       <<"o", "p", "t", "i", "o", "n", "a", "l">>, <<"t", "o", " ", "t", "a", "s", "t", "e">>,
       <<"f", "o", "r", " ", "g", "a", "r", "n", "i", "s", "h">>, <<"p", "l", "a", "i", "n">>,
       <<"a", "l", "l", "-", "p", "u", "r", "p", "o", "s", "e">>,
       <<"s", "e", "l", "f", "-", "r", "a", "i", "s", "i", "n", "g">>, <<"w", "h", "o", "l", "e">>,
       <<"g", "r", "o", "u", "n", "d">>, <<"g", "r", "a", "n", "u", "l", "a", "t", "e", "d">>,
       <<"p", "o", "w", "d", "e", "r", "e", "d">>, <<"b", "o", "n", "e", "l", "e", "s", "s">>,
       <<"s", "k", "i", "n", "l", "e", "s", "s">>, <<"f", "i", "n", "e", "l", "y">>,
       <<"c", "o", "a", "r", "s", "e", "l", "y">>, <<"r", "o", "u", "g", "h", "l", "y">>,
       <<"h", "o", "t">>, <<"c", "o", "l", "d">>, <<"w", "a", "r", "m">>,
       <<"c", "h", "i", "l", "l", "e", "d">>, <<"s", "w", "e", "e", "t">>,
       <<"u", "n", "s", "w", "e", "e", "t", "e", "n", "e", "d">>, <<"s", "a", "l", "t", "e", "d">>,
       <<"u", "n", "s", "a", "l", "t", "e", "d">> >>

\* words that are dropped as single-word names
commonStopWords ==
    { <<"a">>, <<"a", "n">>, <<"t", "h", "e">>, <<"o", "f">>, <<"a", "n", "d">>, <<"o", "r">>,
       <<"w", "i", "t", "h">>, <<"w", "i", "t", "h", "o", "u", "t">>, <<"i", "n">>, <<"o", "n">>,
       <<"a", "t">>, <<"f", "o", "r">>, <<"t", "o">>, <<"f", "r", "o", "m">>,
       <<"s", "o", "m", "e">>, <<"a", "n", "y">>, <<"a", "b", "o", "u", "t">>,
       <<"i", "n", "t", "o">>, <<"o", "v", "e", "r">>, <<"u", "n", "d", "e", "r">> }

\* strings.ToLower(strings.TrimSpace(token))
normalizeAndCleanToken(token) == ToLower(TrimSpace(token))

\* strings.ReplaceAll(s, old, new) from position p on: the matches of old
\* from the left, none overlapping
RECURSIVE ReplaceAll(_, _, _, _)
ReplaceAll(s, p, old, new) ==
    IF p > Len(s) THEN << >>
    ELSE IF p + Len(old) - 1 <= Len(s) /\ SubSeq(s, p, p + Len(old) - 1) = old
         THEN new \o ReplaceAll(s, p + Len(old), old, new)
         ELSE << s[p] >> \o ReplaceAll(s, p + 1, old, new)

\* for each sub in turn: " sub " then "sub " then " sub", each to one space
\* (nothing matches in the empty string)
RECURSIVE removeSubstrings(_, _)
removeSubstrings(s, substrings) ==
    IF s = EmptyStr \/ substrings = << >> THEN s
    ELSE LET sub == Head(substrings)
             a == ReplaceAll(s, 1, << " " >> \o sub \o << " " >>, << " " >>)
             b == ReplaceAll(a, 1, sub \o << " " >>, << " " >>)
             c == ReplaceAll(b, 1, << " " >> \o sub, << " " >>)
         IN  removeSubstrings(c, Tail(substrings))

\* the end of the match of \d+(\s*[-/]\s*\d+)?(\.\d+)?(\s+\d+/\d+)? that
\* starts at the digit at p
reNumEnd(s, p) ==
    LET digitAt(k) == k <= Len(s) /\ IsDigit(s[k])
        a == SkipDigits(s, p)
        sep == SkipSpaces(s, a)
        b == IF sep <= Len(s) /\ s[sep] \in {"-", "/"} /\ digitAt(SkipSpaces(s, sep + 1))
             THEN SkipDigits(s, SkipSpaces(s, sep + 1)) ELSE a
        c == IF b <= Len(s) /\ s[b] = "." /\ digitAt(b + 1)
             THEN SkipDigits(s, b + 1) ELSE b
        num == SkipSpaces(s, c)
        slash == SkipDigits(s, num)
    IN  IF num > c /\ digitAt(num) /\ slash <= Len(s) /\ s[slash] = "/" /\ digitAt(slash + 1)
        THEN SkipDigits(s, slash + 1) ELSE c

\* reNum.ReplaceAllString(s, "") from position p on
RECURSIVE reNumRemove(_, _)
reNumRemove(s, p) ==
    IF p > Len(s) THEN << >>
    ELSE IF IsDigit(s[p]) THEN reNumRemove(s, reNumEnd(s, p))
         ELSE << s[p] >> \o reNumRemove(s, p + 1)

\* strings.Fields(s) from position p on
RECURSIVE Fields(_, _)
Fields(s, p) ==
    IF p > Len(s) THEN << >>
    ELSE IF IsSpace(s[p]) THEN Fields(s, p + 1)
         ELSE LET q == CHOOSE k \in p..Len(s) :
                          /\ \A j \in p..k : ~IsSpace(s[j])
                          /\ (k = Len(s) \/ IsSpace(s[k + 1]))
              IN  << SubSeq(s, p, q) >> \o Fields(s, q + 1)

\* extractFilterableNames: the names it returns (a Go map's keys, in no
\* order); nil for a blank line
extractFilterableNames(fullIngredient) ==
    IF TrimSpace(fullIngredient) = EmptyStr THEN {}
    ELSE LET processed ==
                 removeSubstrings(
                     removeSubstrings(reNumRemove(ToLower(fullIngredient), 1), commonUnits),
                     commonDescriptors)
             trimmedProcessed == CollapseSpaces(TrimSpace(processed), 1)
             words == Fields(trimmedProcessed, 1)
             cleaned == {normalizeAndCleanToken(words[k]) : k \in 1..Len(words)}
             potentialNames ==
                 (IF Len(trimmedProcessed) > 2 THEN {trimmedProcessed} ELSE {})
                 \cup {cleanedWord \in cleaned :
                          cleanedWord \notin commonStopWords /\ Len(cleanedWord) > 2}
             originalTrimmed ==
                 CollapseSpaces(
                     TrimSpace(reNumRemove(normalizeAndCleanToken(fullIngredient), 1)), 1)
         IN  IF potentialNames = {} /\ Len(words) > 0
             THEN IF Len(originalTrimmed) > 1 THEN {originalTrimmed} ELSE {}
             ELSE potentialNames

\* the words the offered ingredient lines are made of
MaxWords == 2

LineWords ==
    { EmptyStr, <<"2">>, <<"1", "/", "2">>, <<"g">>, <<"a">>, <<"e", "g", "g">>,
      <<"c", "u", "p", "s">>, <<"f", "r", "e", "s", "h">>, <<"O", "n", "i", "o", "n">> }

\* the words of ws with one space between them
RECURSIVE JoinWords(_)
JoinWords(ws) ==
    IF Len(ws) = 1 THEN ws[1] ELSE ws[1] \o << " " >> \o JoinWords(Tail(ws))

\* the ingredient lines offered to the normalizer
IngredientLines ==
    {JoinWords(ws) : ws \in UNION {[1..n -> LineWords] : n \in 1..MaxWords}}

\* the longest of the returned names: the whole cleaned phrase when there is one
Longest(names) == CHOOSE n \in names : \A o \in names : Len(o) <= Len(n)

\* a handler receives an ingredient line
InitNorm ==
    /\ db = EmptyStore
    /\ pc = [w \in Workers |-> IF w = 1 THEN "norm" ELSE "idle"]
    /\ \E line \in IngredientLines :
          call = [w \in Workers |-> IF w = 1 THEN [op |-> "normalize", line |-> line]
                                             ELSE NoCall]
    /\ loc = [w \in Workers |-> NoLoc]
    /\ delta = [w \in Workers |-> NoDelta]
    /\ pre = [w \in Workers |-> EmptyStore]
    /\ result = [w \in Workers |-> "none"]
    /\ ncalls = 0
    /\ prevImport = NoBundle
    /\ prevDelete = NoId

\* filterable := extractFilterableNames(line)
Normalize(w) ==
    /\ pc[w] = "norm"
    /\ pc' = [pc EXCEPT ![w] = "renorm"]
    /\ loc' = [loc EXCEPT ![w] =
                  [@ EXCEPT !.got = [err |-> FALSE,
                                     names |-> extractFilterableNames(call[w].line)]]]
    /\ UNCHANGED << db, call, delta, pre, result, ncalls, prevImport, prevDelete >>

\* the longest returned name is given to extractFilterableNames again
Renormalize(w) ==
    /\ pc[w] = "renorm"
    /\ loc[w].got.names # {}
    /\ pc' = [pc EXCEPT ![w] = "done"]
    /\ result' = [result EXCEPT ![w] = "ok"]
    /\ loc' = [loc EXCEPT ![w] =
                  [@ EXCEPT !.got = [err |-> FALSE, names |-> loc[w].got.names,
                                     again |-> extractFilterableNames(
                                                   Longest(loc[w].got.names))]]]
    /\ UNCHANGED << db, call, delta, pre, ncalls, prevImport, prevDelete >>

NextNorm == Normalize(1) \/ Renormalize(1)

SpecNorm == InitNorm /\ [][NextNorm]_vars

(***************************************************************************)
(* Properties.  Under Spec the one worker is worker 1: when its call has   *)
(* returned (pc[1] = "done") pre[1] is the store the call began on and db  *)
(* the store it left.                                                      *)
(***************************************************************************)
Returned(op) == pc[1] = "done" /\ call[1].op = op

LinksOfRecipe(store, id) == {l \in store.links : l.recipe_id = id}

RecipeRows(store, id) == {r \in store.recipes : r.id = id}

\* C1: a CreateRecipe that returned an error, whatever the statement that
\* failed, left the committed store exactly as it was before the call: no
\* recipe, link or ingredient row of the call remains.
CreateFailureLeavesStore ==
    (Returned("create") /\ result[1] # "ok") => db = pre[1]

\* a create was rejected at its second line, after the recipe row, an
\* ingredient row and a link row had been written, because both lines resolve
\* to one ingredient
CreateFailedOnSecondLine ==
    /\ Returned("create")
    /\ result[1] = "unique_violation_link"
    /\ loc[1].i = 2
    /\ pre[1].ingredients = {}

\* C2: after a successful UpdateRecipe with n lines the recipe has exactly n
\* link rows, the link of the line at (0-based) position i carries
\* sort_order i with that line's quantity text and ingredient, and no link
\* row the recipe had before the call survives.
UpdateReplacesLinks ==
    (Returned("update") /\ result[1] = "ok") =>
        LET lines == call[1].draft.lines
            now == LinksOfRecipe(db, loc[1].id)
        IN  /\ Cardinality(now) = Len(lines)
            /\ \A k \in 1..Len(lines) :
                  \E l \in now :
                      /\ l.sort_order = k - 1
                      /\ l.quantity_text = extractIngredientNameParts(lines[k]).quantity
                      /\ IngredientNameOf(db, l) = extractIngredientNameParts(lines[k]).name
            /\ {l.id : l \in now} \cap {l.id : l \in LinksOfRecipe(pre[1], loc[1].id)} = {}

\* an update with fewer lines than the recipe had links succeeded
UpdateShrankLinks ==
    /\ Returned("update")
    /\ result[1] = "ok"
    /\ Cardinality(LinksOfRecipe(pre[1], loc[1].id)) > Len(call[1].draft.lines)

\* C3: an UpdateRecipe on an existing recipe that returned an error left the
\* recipe's row and its set of link rows, and so what GetRecipeByID reads,
\* exactly as they were before the call.
UpdateFailureKeepsRecipe ==
    (Returned("update") /\ result[1] # "ok" /\ RecipeRows(pre[1], loc[1].id) # {}) =>
        /\ RecipeRows(db, loc[1].id) = RecipeRows(pre[1], loc[1].id)
        /\ LinksOfRecipe(db, loc[1].id) = LinksOfRecipe(pre[1], loc[1].id)
        /\ GetRecipeByID(db, loc[1].id) = GetRecipeByID(pre[1], loc[1].id)

\* an update of a recipe that had links was rejected after its old links
\* were deleted, because two draft lines resolve to one ingredient
UpdateFailedAfterDelete ==
    /\ Returned("update")
    /\ result[1] = "unique_violation_link"
    /\ LinksOfRecipe(pre[1], loc[1].id) # {}

\* the ingredient strings a read is to return for the submitted lines
ExpectedIngredients(lines) ==
    [k \in 1..Len(lines) |->
        LET parts == extractIngredientNameParts(lines[k])
        IN  IF parts.quantity # EmptyStr
            THEN parts.quantity \o << " " >> \o parts.name
            ELSE parts.name]

\* C4: GetRecipeByID on a recipe just created with lines L1..Ln returns n
\* ingredient strings in the order of the lines, the i-th being Li's quantity
\* text and name joined by one space, or the name alone when Li has no
\* quantity.
CreatedRecipeReadsBack ==
    (Returned("create") /\ result[1] = "ok") =>
        \A out \in GetRecipeByID(db, loc[1].id) :
            /\ out.found
            /\ out.ingredients = ExpectedIngredients(call[1].draft.lines)

\* a recipe of two lines, one of them with an upper-case name, was created
CreatedTwoLines ==
    /\ Returned("create")
    /\ result[1] = "ok"
    /\ call[1].draft.lines = << Line2CupsStock, Line1Onion >>

\* recipe r has a linked ingredient whose canonical name matches term
HasMatchingIngredient(store, r, term) ==
    \E l \in store.links : \E g \in store.ingredients :
        /\ l.recipe_id = r.id
        /\ g.id = l.ingredient_id
        /\ TsMatch(to_tsvector(g.normalized_name), plainto_tsquery(term))

\* C5: every recipe GetAllRecipes returns for filter terms t1..tk has, for
\* every term, a linked ingredient whose canonical name matches it; a recipe
\* that matches only some terms is not returned.
FilterTermsAllMatch ==
    pc[1] = "idle" =>
        \A s \in SearchInputs, f \in FilterInputs, p \in PageInputs, n \in PageSizeInputs :
            \A out \in GetAllRecipes(db, s, f, p, n) :
                \A k \in 1..Len(out.recipes) : \A t \in 1..Len(f) :
                    HasMatchingIngredient(db, out.recipes[k], f[t])

\* the store holds a recipe matching both of two filter terms, which is
\* listed, and a recipe matching only one of them
FilterExcludesPartialMatch ==
    /\ pc[1] = "idle"
    /\ \E out \in GetAllRecipes(db, EmptyStr, << TermStock, TermOnion >>, 1, 2) :
          ~out.err /\ Len(out.recipes) > 0
    /\ \E r \in db.recipes :
          /\ HasMatchingIngredient(db, r, TermOnion)
          /\ ~HasMatchingIngredient(db, r, TermStock)

\* C6: the total count GetAllRecipes returns equals the number of rows its
\* select returns for the same search and filter terms with pagination
\* removed.
CountEqualsUnpaginatedRows ==
    pc[1] = "idle" =>
        \A s \in SearchInputs, f \in FilterInputs :
            \A rows \in SelectOrders(db, s, f) :
                CountQuery(db, s, f) = Len(rows)

\* C7: a second import of the bundle just imported leaves the numbers of
\* recipe, ingredient and link rows as the first import left them, whichever
\* row a lookup returns.
SecondImportKeepsCounts ==
    (Returned("import") /\ result[1] = "ok" /\ prevImport = call[1].bundle) =>
        /\ Cardinality(db.recipes) = Cardinality(pre[1].recipes)
        /\ Cardinality(db.ingredients) = Cardinality(pre[1].ingredients)
        /\ Cardinality(db.links) = Cardinality(pre[1].links)

\* a link of the bundle names a recipe or ingredient id the bundle lacks
HasDanglingLink(b) ==
    \E k \in 1..Len(b.links) :
        \/ b.links[k].recipe_id \notin {b.recipes[j].id : j \in 1..Len(b.recipes)}
        \/ b.links[k].ingredient_id \notin {b.ingredients[j].id : j \in 1..Len(b.ingredients)}

\* C8: an import of a bundle with a link to an identifier absent from the
\* bundle returns an error and commits nothing: the store is the one before
\* the call.
DanglingImportCommitsNothing ==
    (Returned("import") /\ HasDanglingLink(call[1].bundle)) =>
        result[1] # "ok" /\ db = pre[1]

\* an import was rejected at its second link, after its ingredient, recipe
\* and first link had been handled
DanglingImportRejected ==
    /\ Returned("import")
    /\ call[1].bundle = BundleMissingIngredient
    /\ result[1] = "integrity"
    /\ loc[1].i = 2

\* C9: no two committed link rows share a (recipe, ingredient) pair.
NoDuplicateLinkPairs ==
    \A l1, l2 \in db.links :
        (l1.recipe_id = l2.recipe_id /\ l1.ingredient_id = l2.ingredient_id) => l1 = l2

\* an import of links whose pairs were all there already succeeded and added
\* no link
ImportMetExistingPairs ==
    /\ Returned("import")
    /\ result[1] = "ok"
    /\ Len(call[1].bundle.links) > 0
    /\ pre[1].links # {}
    /\ db.links = pre[1].links

\* C10: under overlapping calls every committed link row references a
\* recipe row and an ingredient row that exist.
NoOrphanLinks ==
    \A l \in db.links :
        /\ \E r \in db.recipes : r.id = l.recipe_id
        /\ \E g \in db.ingredients : g.id = l.ingredient_id

\* a call's link insert was rejected by a foreign key while the other worker
\* had removed the recipe
ForeignKeyRejectedLink ==
    \E w \in Workers :
        /\ pc[w] = "done"
        /\ result[w] = "fk_violation"
        /\ db.recipes # pre[w].recipes

(***************************************************************************)
(* C11: UpdateRecipe with an id that has no recipe row returns the         *)
(* not-found error (or the store's own error) and leaves the committed     *)
(* rows as they were when the call began.                                  *)
(***************************************************************************)
UpdateMissingIsNotFound ==
    (Returned("update") /\ RecipeRows(pre[1], loc[1].id) = {}) =>
        /\ result[1] \in {"not_found", "store_error"}
        /\ db = pre[1]

\* an update of a missing id on a store that holds recipes returned not-found
UpdateMissingReturned ==
    /\ Returned("update")
    /\ result[1] = "not_found"
    /\ pre[1].recipes # {}
    /\ RecipeRows(pre[1], loc[1].id) = {}

(***************************************************************************)
(* C12: DeleteRecipe with an id that has no recipe row succeeds (unless    *)
(* the store itself fails) and changes nothing; after a successful delete  *)
(* the id has no recipe row, so a second delete of the same id leaves the  *)
(* store as the first one left it.                                         *)
(***************************************************************************)
DeleteMissingChangesNothing ==
    /\ (Returned("delete") /\ RecipeRows(pre[1], loc[1].id) = {}) =>
            /\ result[1] \in {"ok", "store_error"}
            /\ db = pre[1]
    /\ (Returned("delete") /\ result[1] = "ok") => RecipeRows(db, loc[1].id) = {}
    /\ (Returned("delete") /\ prevDelete = loc[1].id) => db = pre[1]

\* the id deleted by the previous call was deleted again, successfully
DeletedTwice ==
    /\ Returned("delete")
    /\ result[1] = "ok"
    /\ prevDelete = loc[1].id
    /\ pre[1].ingredients # {}

(***************************************************************************)
(* C13: a successful DeleteRecipe(id) removes the recipe row id and the    *)
(* link rows of that recipe and nothing else: ingredient rows, other       *)
(* recipes' rows and other recipes' links are as they were.                *)
(***************************************************************************)
DeleteRemovesOnlyItsRows ==
    (Returned("delete") /\ result[1] = "ok") =>
        /\ db.ingredients = pre[1].ingredients
        /\ db.recipes = pre[1].recipes \ RecipeRows(pre[1], loc[1].id)
        /\ db.links = pre[1].links \ LinksOfRecipe(pre[1], loc[1].id)

\* a recipe with links was deleted while another recipe with links stayed
DeletedOneOfTwo ==
    /\ Returned("delete")
    /\ result[1] = "ok"
    /\ LinksOfRecipe(pre[1], loc[1].id) # {}
    /\ \E r \in db.recipes : LinksOfRecipe(db, r.id) # {}

(***************************************************************************)
(* C14: when concurrent writers insert the same missing ingredient name,   *)
(* the committed rows never hold two ingredients of one name, and the step *)
(* in which the losing call returns the unique-key error commits none of   *)
(* its rows: the committed rows stay as they are and its writes are gone.  *)
(***************************************************************************)
IngredientRaceHasOneWinner ==
    /\ [](\A g, h \in db.ingredients : g.name = h.name => g = h)
    /\ [][\A w \in Workers :
            (result'[w] = "unique_violation_ingredient" /\ result[w] = "none") =>
                /\ db' = db
                /\ delta'[w] = NoDelta
                /\ \A r \in db'.recipes : r.updated_at # loc[w].now]_vars

\* a call lost the race: its lookup missed, and the name it then inserted
\* was committed by the other worker after the call began
IngredientRaceLost ==
    \E w \in Workers :
        /\ pc[w] = "done"
        /\ result[w] = "unique_violation_ingredient"
        /\ \E g \in db.ingredients \ pre[w].ingredients : g.name = LineName(w)

(***************************************************************************)
(* C15: the total and the rows one GetAllRecipes call returns come from    *)
(* the same committed state: the returned page and total are what the call *)
(* returns on one of the committed states it ran on.                       *)
(***************************************************************************)
ListReadsOneState ==
    (Returned("list") /\ result[1] = "ok") =>
        \E k \in 1..Len(loc[1].seen) :
            loc[1].got \in GetAllRecipes(loc[1].seen[k], call[1].searchTerm,
                                         call[1].ingredientFilters,
                                         call[1].page, call[1].pageSize)

(***************************************************************************)
(* C16: a GetRecipeByID that overlaps an update or a delete of the recipe  *)
(* returns no recipe, or scalar fields and an ingredient list that belong  *)
(* to one committed version: what the call returns on one of the committed *)
(* states it ran on.                                                       *)
(***************************************************************************)
GetReadsOneVersion ==
    (Returned("get") /\ result[1] = "ok") =>
        \E k \in 1..Len(loc[1].seen) :
            loc[1].got \in GetRecipeByID(loc[1].seen[k], loc[1].id)

(***************************************************************************)
(* C17: the normalizer is idempotent on its longest name: normalizing the  *)
(* longest name returned for a line returns that same name as the longest. *)
(***************************************************************************)
NormalizerIdempotent ==
    (Returned("normalize") /\ loc[1].got.names # {}) =>
        /\ loc[1].got.again # {}
        /\ Longest(loc[1].got.again) = Longest(loc[1].got.names)

(***************************************************************************)
(* C18: for every ingredient line that is not blank (the handlers skip     *)
(* blank ones) the normalizer returns a name, and when stripping leaves    *)
(* nothing the name is the lower-cased, trimmed line with only the         *)
(* quantities removed.                                                     *)
(***************************************************************************)
NormalizerYieldsName ==
    (/\ pc[1] \in {"renorm", "done"}
     /\ call[1].op = "normalize"
     /\ TrimSpace(call[1].line) # EmptyStr) =>
        /\ loc[1].got.names # {}
        /\ LET stripped ==
                   TrimSpace(removeSubstrings(
                       removeSubstrings(reNumRemove(ToLower(call[1].line), 1), commonUnits),
                       commonDescriptors))
           IN  stripped = EmptyStr =>
                   loc[1].got.names =
                       {CollapseSpaces(TrimSpace(reNumRemove(ToLower(call[1].line), 1)), 1)}

\* the rows of a store without their generated ids and timestamps
RowsByKey(store) ==
    [recipes |-> {<< r.name, r.method, r.photo_filename >> : r \in store.recipes},
     ingredients |-> {<< g.name, g.normalized_name >> : g \in store.ingredients},
     links |-> {<< (CHOOSE r \in store.recipes : r.id = l.recipe_id).name,
                   IngredientNameOf(store, l), l.quantity_text, l.sort_order >> :
                    l \in store.links}]

\* two bundles that differ in normalized_name values and in nothing else
DifferInCanonicalOnly(a, b) ==
    /\ a # b
    /\ a.recipes = b.recipes
    /\ a.links = b.links
    /\ Len(a.ingredients) = Len(b.ingredients)
    /\ \A k \in 1..Len(a.ingredients) :
          [a.ingredients[k] EXCEPT !.normalized_name = EmptyStr]
              = [b.ingredients[k] EXCEPT !.normalized_name = EmptyStr]

\* the import of worker w has run all its statements on the committed rows
\* db: it is about to commit, or a statement was rejected by a constraint
ImportRanOn(w) ==
    /\ call[w].op = "import"
    /\ pre[w] = db
    /\ \/ pc[w] = "commit"
       \/ pc[w] = "done" /\ result[w] \notin {"ok", "store_error"}

(***************************************************************************)
(* C19: the canonical name is never taken from the caller: the imports of  *)
(* two bundles that differ only in normalized_name values, run on the same *)
(* committed rows, both succeed or both fail, and leave the same           *)
(* ingredient rows and the same links to the same ingredients.             *)
(***************************************************************************)
ImportIgnoresCallerCanonical ==
    (/\ ImportRanOn(1)
     /\ ImportRanOn(2)
     /\ DifferInCanonicalOnly(call[1].bundle, call[2].bundle)) =>
        /\ pc[1] = pc[2]
        /\ pc[1] = "commit" => RowsByKey(Commit(1)) = RowsByKey(Commit(2))

(***************************************************************************)
(* C20: a successful import into a store that holds rows creates no        *)
(* duplicate natural key: no ingredient row it inserts has a canonical     *)
(* name another row holds, no recipe row it inserts a name another row     *)
(* holds.  (The import is the only call since the seeded store.)           *)
(***************************************************************************)
ImportCreatesNoDuplicateKey ==
    (Returned("import") /\ result[1] = "ok" /\ ncalls = 2) =>
        /\ \A g \in db.ingredients \ pre[1].ingredients :
              \A h \in db.ingredients : h.normalized_name = g.normalized_name => h = g
        /\ \A r \in db.recipes \ pre[1].recipes :
              \A q \in db.recipes : q.name = r.name => q = r

(***************************************************************************)
(* C21: CreateRecipe stores the timestamps the caller supplies: a recipe   *)
(* the legacy import saves with the file's id and timestamps has that id   *)
(* and those timestamps in its stored row.                                 *)
(***************************************************************************)
CreateKeepsSuppliedTimes ==
    (Returned("create") /\ result[1] = "ok" /\ "file" \in DOMAIN call[1]) =>
        \E r \in db.recipes :
            /\ r.id = call[1].fileID
            /\ r.created_at = call[1].file.created_at
            /\ r.updated_at = call[1].file.updated_at

(***************************************************************************)
(* C22: for a line made of a quantity, a unit and a name, the ingredient   *)
(* that create links has the bare name as its canonical name: the recipe   *)
(* created from "2 cups stock" and "1 Onion" is linked to ingredients      *)
(* whose canonical names are "stock" and "onion".                          *)
(***************************************************************************)
CreateLinksBareNames ==
    (/\ Returned("create")
     /\ result[1] = "ok"
     /\ call[1].draft.lines = << Line2CupsStock, Line1Onion >>) =>
        {g.normalized_name :
            g \in {h \in db.ingredients :
                      \E l \in LinksOfRecipe(db, loc[1].id) : l.ingredient_id = h.id}}
            = {TermStock, TermOnion}

(***************************************************************************)
(* C23: for every recipe GetAllRecipes returns, the ingredient display     *)
(* list has one entry per link in sort_order, each the quantity text, a    *)
(* space and the ingredient name, and the ingredient name alone when the   *)
(* link has an empty or absent quantity text.                              *)
(***************************************************************************)
ListShowsNameAlone ==
    pc[1] = "idle" =>
        \A res \in GetAllRecipes(db, EmptyStr, << >>, 1, 0) :
            ~res.err =>
                \A k \in 1..Len(res.recipes) :
                    LET id == res.recipes[k].id
                        links == JoinedLinks(db, id)
                    IN  ingredients_list(db, id) =
                            {[j \in 1..Len(rows) |->
                                 DisplayString(IF rows[j].quantity_text = NULL
                                               THEN EmptyStr ELSE rows[j].quantity_text,
                                               IngredientNameOf(db, rows[j]))] :
                                rows \in AscendingOrders(links,
                                                        [l \in links |-> l.sort_order])}

(***************************************************************************)
(* C24: GET /recipes/{id} and PUT /recipes/{id} with an id that has no     *)
(* recipe row answer 404 and change nothing.                               *)
(***************************************************************************)
MissingRecipeAnswers404 ==
    (/\ pc[1] = "done"
     /\ call[1].op \in {"get", "put"}
     /\ RecipeRows(pre[1], loc[1].id) = {}) =>
        /\ HandlerStatus(1) = 404
        /\ db = pre[1]

(***************************************************************************)
(* C30: when PUT /recipes/{id} uploads a new photo and the database update *)
(* fails, the photo file the stored recipe row references still exists:    *)
(* the handler has not removed it.                                         *)
(***************************************************************************)
FailedPutKeepsPhotoFile ==
    (Returned("put") /\ result[1] # "ok") =>
        \A r \in RecipeRows(db, loc[1].id) : r.photo_filename \notin loc[1].got.removed

(***************************************************************************)
(* C25: every bundle ExportData produces is self-contained, also while     *)
(* other calls write: each link of the bundle references a recipe and an   *)
(* ingredient that are in the same bundle.                                 *)
(***************************************************************************)
ExportIsSelfContained ==
    (Returned("export") /\ result[1] = "ok") =>
        LET bundle == loc[1].got
        IN  \A k \in 1..Len(bundle.links) :
                /\ \E r \in 1..Len(bundle.recipes) :
                      bundle.recipes[r].id = bundle.links[k].recipe_id
                /\ \E g \in 1..Len(bundle.ingredients) :
                      bundle.ingredients[g].id = bundle.links[k].ingredient_id

(***************************************************************************)
(* C26: on a store that does not change, for fixed search term, filters    *)
(* and page size, the pages 1..ceil(total/pageSize) of GetAllRecipes       *)
(* together hold each matching recipe exactly once.                        *)
(***************************************************************************)
PagesHoldEachRecipeOnce ==
    pc[1] = "idle" =>
        \A st \in SearchInputs : \A f \in FilterInputs : \A n \in PageSizeInputs :
            LET total == CountQuery(db, st, f)
                pages == 1..((total + n - 1) \div n)
                matching == {row.recipe.id : row \in JoinRows(db, st, f)}
                results == UNION {GetAllRecipes(db, st, f, p, n) : p \in pages}
            IN  \A got \in [pages -> results] :
                    (\A p \in pages : /\ got[p] \in GetAllRecipes(db, st, f, p, n)
                                      /\ ~got[p].err) =>
                        \A id \in matching :
                            Cardinality({pk \in pages \X (1..n) :
                                            /\ pk[2] <= Len(got[pk[1]].recipes)
                                            /\ got[pk[1]].recipes[pk[2]].id = id}) = 1

\* the stored recipe of worker w's update is the draft of w: its name, method
\* and photo, and the ingredient list of its lines
StoredRecipeIsDraftOf(w) ==
    /\ \A r \in RecipeRows(db, loc[w].id) :
          /\ r.name = call[w].draft.name
          /\ r.method = call[w].draft.method
          /\ r.photo_filename = call[w].draft.photo
    /\ \A out \in GetRecipeByID(db, loc[w].id) :
          /\ out.found
          /\ ~out.err
          /\ out.ingredients = ExpectedIngredients(call[w].draft.lines)

\* two updates of one recipe have both returned success
BothUpdatesSucceeded ==
    /\ \A w \in Workers : pc[w] = "done" /\ call[w].op = "update" /\ result[w] = "ok"
    /\ loc[1].id = loc[2].id

(***************************************************************************)
(* C27: when two overlapping UpdateRecipe calls on one recipe both return  *)
(* success, the recipe's stored name, method, photo and links are those of *)
(* one of the two drafts, never a mixture of both.                         *)
(***************************************************************************)
ConcurrentUpdatesDoNotMix ==
    BothUpdatesSucceeded => \E w \in Workers : StoredRecipeIsDraftOf(w)

\* both updates began on the same committed store, with different drafts, and
\* both returned success
OverlappingUpdatesSucceeded ==
    /\ BothUpdatesSucceeded
    /\ pre[1] = pre[2]
    /\ call[1].draft.name # call[2].draft.name
    /\ call[1].draft.lines # call[2].draft.lines

(***************************************************************************)
(* C28: when the export of a store whose recipe names are pairwise         *)
(* distinct is imported into an empty store, GetRecipeByID succeeds for    *)
(* every imported recipe and returns the ordered ingredient list of the    *)
(* source's recipe of the same name.                                       *)
(***************************************************************************)
RestoredRecipesReadBack ==
    (/\ Returned("import")
     /\ "source" \in DOMAIN call[1]
     /\ result[1] = "ok"
     /\ \A a, b \in call[1].source.recipes : a.name = b.name => a = b) =>
        \A s \in call[1].source.recipes :
            \E r \in db.recipes :
                /\ r.name = s.name
                /\ \A out \in GetRecipeByID(db, r.id) :
                      /\ out.found
                      /\ ~out.err
                      /\ \E src \in GetRecipeByID(call[1].source, s.id) :
                            src.found /\ src.ingredients = out.ingredients

(***************************************************************************)
(* C29: in every committed state reached by creates, updates, deletes and  *)
(* imports, the sort_order values of the links of one recipe are pairwise  *)
(* distinct.                                                               *)
(***************************************************************************)
SortOrdersDistinct ==
    \A l1, l2 \in db.links :
        (l1.recipe_id = l2.recipe_id /\ l1.sort_order = l2.sort_order) => l1 = l2
====
